---- MODULE Spec2Model ----
(***************************************************************************)
(* A model of the CBOR decoder of src/decoder.js: the frame stack          *)
(* (_parents), the output accumulator (_res), the pending key (_tmpKey),   *)
(* the callbacks the byte scanner invokes, and the public decode calls.    *)
(*                                                                         *)
(* JavaScript values are records of one shape, so that any two of them can *)
(* be compared.  Numbers are kept exactly as a sign and a magnitude in     *)
(* 16-bit limbs (least significant first), because the 64-bit values the   *)
(* decoder builds do not fit the model checker's integers; the rounding of *)
(* IEEE-754 double arithmetic is applied explicitly (Round53).             *)
(***************************************************************************)
EXTENDS Integers, Sequences, FiniteSets, TLC

\* ------------------------------------------------------------------------
\* Bounds of the model
\* ------------------------------------------------------------------------
MaxEvents == 5
MaxNumEvents == 2
MaxCallEvents == 2
MaxCalls == 2

\* ------------------------------------------------------------------------
\* Numbers: magnitudes as NLimbs limbs of LimbBits bits, least significant
\* first
\* ------------------------------------------------------------------------
Base == 65536
NLimbs == 5

ZeroMag == [i \in 1..NLimbs |-> 0]

\* a magnitude from a small non-negative integer (below 2^31)
MagOf(n) == [i \in 1..NLimbs |->
               IF i = 1 THEN n % Base
               ELSE IF i = 2 THEN (n \div Base) % Base
               ELSE 0]

IsZeroMag(m) == \A i \in 1..NLimbs : m[i] = 0

\* carry into limb i when adding a and b
RECURSIVE CarryInto(_, _, _)
CarryInto(a, b, i) ==
  IF i = 1 THEN 0 ELSE (a[i-1] + b[i-1] + CarryInto(a, b, i-1)) \div Base

AddMag(a, b) == [i \in 1..NLimbs |-> (a[i] + b[i] + CarryInto(a, b, i)) % Base]

\* borrow into limb i when subtracting b from a (a >= b)
RECURSIVE BorrowInto(_, _, _)
BorrowInto(a, b, i) ==
  IF i = 1 THEN 0
  ELSE IF a[i-1] - b[i-1] - BorrowInto(a, b, i-1) < 0 THEN 1 ELSE 0

SubMag(a, b) ==
  [i \in 1..NLimbs |-> (a[i] - b[i] - BorrowInto(a, b, i) + Base) % Base]

\* a > b, compared from the most significant limb down
RECURSIVE GreaterFrom(_, _, _)
GreaterFrom(a, b, i) ==
  IF i = 0 THEN FALSE
  ELSE IF a[i] # b[i] THEN a[i] > b[i]
  ELSE GreaterFrom(a, b, i-1)

GreaterMag(a, b) == GreaterFrom(a, b, NLimbs)

\* m * Base^k (limbs shifted out at the top are dropped; the callers never
\* shift a value that large)
ShiftLimbs(m, k) == [i \in 1..NLimbs |-> IF i <= k THEN 0 ELSE m[i-k]]

RECURSIVE Pow2(_)
Pow2(k) == IF k = 0 THEN 1 ELSE 2 * Pow2(k-1)

\* number of significant bits of a limb
RECURSIVE BitLen(_)
BitLen(x) == IF x = 0 THEN 0 ELSE 1 + BitLen(x \div 2)

RECURSIVE TopLimb(_, _)
TopLimb(m, i) == IF i = 0 THEN 0 ELSE IF m[i] # 0 THEN i ELSE TopLimb(m, i-1)

MagBits(m) ==
  LET top == TopLimb(m, NLimbs)
  IN  IF top = 0 THEN 0 ELSE 16 * (top - 1) + BitLen(m[top])

\* IEEE-754 double: a 53-bit significand.  Round53(m) is the double nearest
\* to the exact integer m (ties to even), which is what every arithmetic
\* operation on JavaScript numbers returns.  The bits rounded away lie in
\* the lowest limb: the decoder builds no magnitude above 2^64.
MantissaBits == 53

Round53(m) ==
  LET e == MagBits(m) - MantissaBits
  IN  IF e <= 0 THEN m
      ELSE LET unit == Pow2(e)
               low  == m[1] % unit
               down == SubMag(m, MagOf(low))
               up   == AddMag(down, MagOf(unit))
               odd  == (m[1] \div unit) % 2 = 1
           IN  IF 2 * low > unit \/ (2 * low = unit /\ odd) THEN up ELSE down

\* decimal digits of a magnitude, as JavaScript prints an integer
DigitChar == <<"0", "1", "2", "3", "4", "5", "6", "7", "8", "9">>

\* remainder carried out of limb i in the long division of m by ten
RECURSIVE Rem10(_, _)
Rem10(m, i) ==
  IF i > NLimbs THEN 0 ELSE (Rem10(m, i+1) * Base + m[i]) % 10

Div10(m) == [i \in 1..NLimbs |-> (Rem10(m, i+1) * Base + m[i]) \div 10]

RECURSIVE Digits(_)
Digits(m) ==
  IF IsZeroMag(m) THEN <<>> ELSE Append(Digits(Div10(m)), DigitChar[Rem10(m, 1) + 1])

ToDecimal(negative, m) ==
  IF IsZeroMag(m) THEN <<"0">>
  ELSE (IF negative THEN <<"-">> ELSE <<>>) \o Digits(m)

\* ------------------------------------------------------------------------
\* JavaScript values.  t is the kind of value:
\*   "number" (a double holding the integer neg/mag), "nan", "bignumber"
\*   (a Bignumber instance holding neg/mag exactly), "string" (s, a sequence
\*   of characters), "undefined", "null", "true", "false", "object" (a
\*   reference to the heap object id) and "hole" (an empty array slot).
\* ------------------------------------------------------------------------
Val(t) == [t |-> t, neg |-> FALSE, mag |-> ZeroMag, s |-> <<>>, id |-> 0]

Undefined == Val("undefined")
Null == Val("null")
True == Val("true")
False == Val("false")
NaN == Val("nan")
Hole == Val("hole")
Str(chars) == [Val("string") EXCEPT !.s = chars]
Ref(id) == [Val("object") EXCEPT !.id = id]
Number(neg, m) == [Val("number") EXCEPT !.neg = neg /\ ~IsZeroMag(m), !.mag = m]
Bignumber(neg, m) == [Val("bignumber") EXCEPT !.neg = neg /\ ~IsZeroMag(m), !.mag = m]
Num(n) == IF n < 0 THEN Number(TRUE, MagOf(-n)) ELSE Number(FALSE, MagOf(n))

\* the value of a small number as an integer of the model
IntOf(v) == (IF v.neg THEN -1 ELSE 1) * (v.mag[1] + Base * v.mag[2])

\* ToBoolean
Truthy(v) ==
  CASE v.t = "number" -> ~IsZeroMag(v.mag)
    [] v.t = "string" -> v.s # <<>>
    [] v.t \in {"true", "object", "bignumber"} -> TRUE
    [] OTHER -> FALSE

\* typeof v
TypeOf(v) ==
  CASE v.t \in {"number", "nan"} -> "number"
    [] v.t = "string" -> "string"
    [] v.t \in {"true", "false"} -> "boolean"
    [] v.t \in {"undefined", "hole"} -> "undefined"
    [] OTHER -> "object"

\* ToNumber, for the values a frame's length property can hold
ToNumber(v) == IF v.t = "number" THEN v ELSE IF v.t = "null" THEN Num(0) ELSE NaN

\* a - b on exact signed integers, as a sign and a magnitude
ExactSub(a, b) ==
  IF a.neg # b.neg THEN [neg |-> a.neg, mag |-> AddMag(a.mag, b.mag)]
  ELSE IF GreaterMag(b.mag, a.mag) THEN [neg |-> ~a.neg, mag |-> SubMag(b.mag, a.mag)]
  ELSE [neg |-> a.neg, mag |-> SubMag(a.mag, b.mag)]

Negated(b) == [b EXCEPT !.neg = ~b.neg /\ ~IsZeroMag(b.mag)]

\* a - b, a + b, a * 2^32 and a > b on numbers (doubles holding integers)
NumSub(a, b) ==
  IF a.t = "nan" \/ b.t = "nan" THEN NaN
  ELSE LET r == ExactSub(a, b) IN Number(r.neg, Round53(r.mag))

NumAdd(a, b) == IF b.t = "nan" THEN NaN ELSE NumSub(a, Negated(b))

NumGreater(a, b) ==
  /\ a.t = "number" /\ b.t = "number"
  /\ IF a.neg # b.neg THEN b.neg
     ELSE IF a.neg THEN GreaterMag(b.mag, a.mag) ELSE GreaterMag(a.mag, b.mag)

\* the same on Bignumber instances, which are exact
BigSub(a, b) == LET r == ExactSub(a, b) IN Bignumber(r.neg, r.mag)
BigPlus(a, b) == BigSub(a, Negated(b))

\* v < 0 and v === 0
LessThanZero(v) == LET n == ToNumber(v) IN n.t = "number" /\ n.neg
StrictEqualsZero(v) == v.t = "number" /\ IsZeroMag(v.mag)

\* ------------------------------------------------------------------------
\* The JavaScript heap: objs maps an object's identity to the object.  An
\* Array has items; an Object and a Map have keys and, at the same indices,
\* items, both in insertion order.
\* ------------------------------------------------------------------------
NewId(objs) ==
  CHOOSE i \in 1..(Cardinality(DOMAIN objs) + 1) :
    i \notin DOMAIN objs /\ \A j \in 1..(i-1) : j \in DOMAIN objs

\* new Array(len): len empty slots for a number (here below 2^31),
\* RangeError for a number that is no array length, and the one-element
\* array [len] otherwise
NewArray(n) ==
  IF n.t = "number"
  THEN [kind |-> "Array", items |-> [i \in 1..IntOf(n) |-> Hole], keys |-> <<>>]
  ELSE [kind |-> "Array", items |-> <<n>>, keys |-> <<>>]

InvalidArrayLength(n) == n.t = "nan" \/ (n.t = "number" /\ n.neg)

NewObject == [kind |-> "Object", items |-> <<>>, keys |-> <<>>]

IndexOfKey(o, key) ==
  IF \E i \in 1..Len(o.keys) : o.keys[i] = key
  THEN CHOOSE i \in 1..Len(o.keys) : o.keys[i] = key
  ELSE 0

\* o[key] = val on an Object with a string key, and o.set(key, val) on a Map.
\* Entries keep their insertion order (no key of the model is an array
\* index, which an Object would enumerate first).
SetEntry(o, key, val) ==
  LET i == IndexOfKey(o, key)
  IN  IF i = 0
      THEN [o EXCEPT !.keys = Append(@, key), !.items = Append(@, val)]
      ELSE [o EXCEPT !.items[i] = val]

ObjectTag == <<"[object Object]">>
MapTag == <<"[object Map]">>

RECURSIVE StringOf(_, _)
RECURSIVE Join(_, _, _)
\* Array.prototype.join(","): undefined, null and empty slots print as ""
Join(objs, items, i) ==
  IF i > Len(items) THEN <<>>
  ELSE (IF i > 1 THEN <<",">> ELSE <<>>)
       \o (IF items[i].t \in {"undefined", "null", "hole"} THEN <<>>
           ELSE StringOf(objs, items[i]))
       \o Join(objs, items, i + 1)

\* String(v), the conversion o[v] applies to a key that is not a string
StringOf(objs, v) ==
  CASE v.t = "string" -> v.s
    [] v.t \in {"number", "bignumber"} -> ToDecimal(v.neg, v.mag)
    [] v.t = "nan" -> <<"NaN">>
    [] v.t = "object" ->
         (CASE objs[v.id].kind = "Array" -> Join(objs, objs[v.id].items, 1)
            [] objs[v.id].kind = "Map" -> MapTag
            [] OTHER -> ObjectTag)
    [] OTHER -> <<v.t>>

\* ------------------------------------------------------------------------
\* The decoder instance: d.objs the heap, d.res = this._res, d.tmpKey =
\* this._tmpKey, d.parents = this._parents, d.threw whether a callback has
\* thrown.  A frame has the properties the code writes (type, ref, left,
\* len) and the one _dec reads and writes (length).
\* ------------------------------------------------------------------------
\* a threshold one bit too high
MAX_SAFE_HIGH_Mut == 4194303

MAX_SAFE_HIGH == 2097151

PARENT_ARRAY == 0
PARENT_OBJECT == 1
PARENT_MAP == 2
PARENT_TAG == 3

Frame(type, ref, left, len) ==
  [type |-> type, ref |-> ref, left |-> left, len |-> len, length |-> Undefined]

Instance(heap, res, tmpKey, parents, threw) ==
  [objs |-> heap, res |-> res, tmpKey |-> tmpKey, parents |-> parents,
   threw |-> threw]

_depth(d) == Len(d.parents)

_currentParent(d) == d.parents[_depth(d)]

_ref(d) == _currentParent(d).ref

Throw(d) == [d EXCEPT !.threw = TRUE]

_closeParent(d) == [d EXCEPT !.parents = SubSeq(@, 1, Len(@) - 1)]

\* a _dec that closes the frame when the count is falsy, not when it is 0
_dec_Mut(d) ==
  IF _depth(d) = 0 THEN Throw(d)
  ELSE LET p == _currentParent(d)
       IN  IF LessThanZero(p.length) THEN d
           ELSE LET n  == NumSub(ToNumber(p.length), Num(1))
                    d1 == [d EXCEPT !.parents[_depth(d)].length = n]
                IN  IF ~Truthy(n) THEN _closeParent(d1) ELSE d1

_dec(d) ==
  IF _depth(d) = 0 THEN Throw(d)
  ELSE LET p == _currentParent(d)
       IN  IF LessThanZero(p.length) THEN d
           ELSE LET n  == NumSub(ToNumber(p.length), Num(1))
                    d1 == [d EXCEPT !.parents[_depth(d)].length = n]
                IN  IF StrictEqualsZero(n) THEN _closeParent(d1) ELSE d1

\* utils.buildMap(obj): a new Map holding the own properties of obj
buildMap(o) == [kind |-> "Map", items |-> o.items, keys |-> o.keys]

_push(d, val) ==
  IF _depth(d) = 0 THEN Throw(d)
  ELSE
  LET p == _currentParent(d)
      r == _ref(d)
  IN  CASE p.type = PARENT_ARRAY ->
             _dec([d EXCEPT !.objs[r].items = Append(@, val)])
        [] p.type = PARENT_OBJECT ->
             IF Truthy(d.tmpKey)
             THEN _dec([d EXCEPT
                          !.objs[r] = SetEntry(@, Str(StringOf(d.objs, d.tmpKey)), val),
                          !.tmpKey = Null])
             ELSE IF TypeOf(val) # "string"
                  THEN LET m == NewId(d.objs)
                       IN  [d EXCEPT !.tmpKey = val,
                                     !.parents[_depth(d)].type = PARENT_MAP,
                                     !.parents[_depth(d)].ref = m,
                                     !.objs = (m :> buildMap(d.objs[r])) @@ @]
                  ELSE [d EXCEPT !.tmpKey = val]
        [] p.type = PARENT_MAP ->
             IF Truthy(d.tmpKey)
             THEN _dec([d EXCEPT !.objs[r] = SetEntry(@, d.tmpKey, val),
                                 !.tmpKey = Null])
             ELSE [d EXCEPT !.tmpKey = val]
        [] p.type = PARENT_TAG -> d
        [] OTHER -> Throw(d)

\* obj is the identity of the container the caller has just created
_createParent(d, obj, type, len) ==
  LET d1 == _push(d, Ref(obj))
  IN  IF d1.threw THEN d1
      ELSE [d1 EXCEPT !.parents = Append(@, Frame(type, obj, len, Undefined))]

\* a reset that forgets the pending key
_reset_Mut(d) ==
  LET r == NewId(d.objs)
  IN  [d EXCEPT !.objs = (r :> NewArray(Num(0))) @@ @,
                !.res = r,
                !.parents = <<Frame(PARENT_ARRAY, r, Undefined, Num(-1))>>]

\* a reset that empties the accumulator it already has
_reset_InPlace_Mut(d) ==
  IF d.res \in DOMAIN d.objs
  THEN [d EXCEPT !.objs[d.res].items = <<>>,
                 !.tmpKey = Null,
                 !.parents = <<Frame(PARENT_ARRAY, d.res, Undefined, Num(-1))>>]
  ELSE LET r == NewId(d.objs)
       IN  [d EXCEPT !.objs = (r :> NewArray(Num(0))) @@ @,
                     !.res = r,
                     !.tmpKey = Null,
                     !.parents = <<Frame(PARENT_ARRAY, r, Undefined, Num(-1))>>]

_reset(d) ==
  LET r == NewId(d.objs)
  IN  [d EXCEPT !.objs = (r :> NewArray(Num(0))) @@ @,
                !.res = r,
                !.tmpKey = Null,
                !.parents = <<Frame(PARENT_ARRAY, r, Undefined, Num(-1))>>]

\* ------------------------------------------------------------------------
\* Numeric construction helpers
\* ------------------------------------------------------------------------
\* the number of 16-bit limbs SHIFT16 = 2^16 and SHIFT32 = 2^32 shift by
SHIFT16 == 1
SHIFT32 == 2

\* utils.buildInt32(f, g) = f * SHIFT16 + g
buildInt32(f, g) ==
  NumAdd(Number(FALSE, Round53(ShiftLimbs(MagOf(f), SHIFT16))), Num(g))

NEG_ONE == Bignumber(TRUE, MagOf(1))

\* ------------------------------------------------------------------------
\* The callbacks the scanner invokes
\* ------------------------------------------------------------------------
pushInt(d, val) == _push(d, val)

pushInt32(d, f, g) == _push(d, buildInt32(f, g))

pushInt32Neg(d, f, g) == _push(d, NumSub(Num(-1), buildInt32(f, g)))

pushInt64Neg(d, f1, f2, g1, g2) ==
  LET f == buildInt32(f1, f2)
      g == buildInt32(g1, g2)
  IN  IF NumGreater(f, Num(MAX_SAFE_HIGH))
      THEN _push(d, BigSub(NEG_ONE,
                           BigPlus(Bignumber(f.neg, ShiftLimbs(f.mag, SHIFT32)), g)))
      ELSE _push(d, NumSub(Num(-1),
                           NumAdd(Number(f.neg, Round53(ShiftLimbs(f.mag, SHIFT32))), g)))

pushTrue(d) == _push(d, True)

pushFalse(d) == _push(d, False)

pushNull(d) == _push(d, Null)

pushUndefined(d) == _push(d, Undefined)

\* chars is the text of the bytes start..end of the input region
pushUtf8String(d, chars) == _push(d, Str(chars))

_createObjectStartFixed(d, len) ==
  LET o == NewId(d.objs)
  IN  _createParent([d EXCEPT !.objs = (o :> NewObject) @@ @], o, PARENT_OBJECT, len)

_createArrayStartFixed(d, len) ==
  IF InvalidArrayLength(len) THEN Throw(d)
  ELSE LET a == NewId(d.objs)
       IN  _createParent([d EXCEPT !.objs = (a :> NewArray(len)) @@ @], a, PARENT_ARRAY, len)

pushArrayStartFixed(d, len) == _createArrayStartFixed(d, len)

pushArrayStartFixed32(d, len1, len2) == _createArrayStartFixed(d, buildInt32(len1, len2))

pushObjectStartFixed(d, len) == _createObjectStartFixed(d, len)

pushObjectStartFixed32(d, len1, len2) == _createObjectStartFixed(d, buildInt32(len1, len2))

\* One event of the scanner: the callback it invokes (op), the callback's
\* numeric arguments (n) and, for a text string, the text (s).
Event(op, args, text) == [n |-> args, s |-> text, op |-> op]

Apply(d, ev) ==
  CASE ev.op = "pushInt" -> pushInt(d, Num(ev.n[1]))
    [] ev.op = "pushInt32" -> pushInt32(d, ev.n[1], ev.n[2])
    [] ev.op = "pushInt32Neg" -> pushInt32Neg(d, ev.n[1], ev.n[2])
    [] ev.op = "pushInt64Neg" -> pushInt64Neg(d, ev.n[1], ev.n[2], ev.n[3], ev.n[4])
    [] ev.op = "pushTrue" -> pushTrue(d)
    [] ev.op = "pushFalse" -> pushFalse(d)
    [] ev.op = "pushNull" -> pushNull(d)
    [] ev.op = "pushUndefined" -> pushUndefined(d)
    [] ev.op = "pushUtf8String" -> pushUtf8String(d, ev.s)
    [] ev.op = "pushArrayStartFixed" -> pushArrayStartFixed(d, Num(ev.n[1]))
    [] ev.op = "pushArrayStartFixed32" -> pushArrayStartFixed32(d, ev.n[1], ev.n[2])
    [] ev.op = "pushObjectStartFixed" -> pushObjectStartFixed(d, Num(ev.n[1]))
    [] ev.op = "pushObjectStartFixed32" -> pushObjectStartFixed32(d, ev.n[1], ev.n[2])

\* ------------------------------------------------------------------------
\* State
\* ------------------------------------------------------------------------
VARIABLES
  heapSize,   \* byte length of this._heap
  objs,       \* the JavaScript heap
  res,        \* this._res
  tmpKey,     \* this._tmpKey
  parents,    \* this._parents
  pc,         \* "idle", "scanning" (inside parser.parse), "returned", "thrown"
  api,        \* the public method of the call: "decodeFirst" or "decodeAll"
  inputSize,  \* input.byteLength of the call
  trace,      \* the events the scanner has emitted in this call, in order
  code,       \* the status the scanner returned
  error,      \* the message of the error the call threw
  result,     \* the value the last returning call returned to the caller
  calls,      \* number of decode calls made on the instance
  stale       \* history: the call began with open frames or a key left
              \* over from the call before

vars == <<heapSize, objs, res, tmpKey, parents, pc, api, inputSize, trace,
          code, error, result, calls, stale>>

\* the decoder instance as the record the operators above work on
D == Instance(objs, res, tmpKey, parents, FALSE)

Install(d) ==
  /\ objs' = d.objs
  /\ res' = d.res
  /\ tmpKey' = d.tmpKey
  /\ parents' = d.parents

\* Objects no reference leads to any more are dropped from the heap: the
\* decoder holds _res, _tmpKey and the frames' refs, the caller the result.
RefsIn(seq) == {seq[i].id : i \in {j \in 1..Len(seq) : seq[j].t = "object"}}

RECURSIVE Closure(_, _)
Closure(h, S) ==
  LET T == S \cup UNION {RefsIn(h[i].items) \cup RefsIn(h[i].keys) : i \in S}
  IN  IF T = S THEN S ELSE Closure(h, T)

Roots(d, kept) ==
  {d.res} \cup RefsIn(<<d.tmpKey, kept>>) \cup {d.parents[i].ref : i \in 1..Len(d.parents)}

Collect(d, kept) ==
  [d EXCEPT !.objs = [i \in Closure(d.objs, Roots(d, kept)) |-> d.objs[i]]]

\* constructor(size)
HeapSizeOf(size) == IF size = 0 \/ size < 65536 THEN 65536 ELSE size

Constructed(size) ==
  _reset(Instance(<<>>, 0, Undefined, <<>>, FALSE))

InitWith(sizes) ==
  /\ \E size \in sizes :
       /\ heapSize = HeapSizeOf(size)
       /\ objs = Constructed(size).objs
       /\ res = Constructed(size).res
       /\ tmpKey = Constructed(size).tmpKey
       /\ parents = Constructed(size).parents
  /\ pc = "idle"
  /\ api = "none"
  /\ inputSize = 0
  /\ trace = <<>>
  /\ code = 0
  /\ error = "none"
  /\ result = Undefined
  /\ calls = 0
  /\ stale = FALSE

\* a copy that accepts one byte more than fits
SetThrows_Mut(capacity, byteLength) == byteLength > capacity + 1

\* this._heap8.set(input) throws a RangeError when input does not fit
SetThrows(capacity, byteLength) == byteLength > capacity

\* _decode(input) up to the call of parser.parse: _reset, then the copy of
\* the input into the heap
DecodeStart(method, size, maxCalls) ==
  /\ pc \in {"idle", "returned", "thrown"}
  /\ calls < maxCalls
  /\ Install(Collect(_reset(D), result))
  /\ IF SetThrows(heapSize, size)
     THEN pc' = "thrown" /\ error' = "RangeError"
     ELSE pc' = "scanning" /\ error' = "none"
  /\ api' = method
  /\ inputSize' = size
  /\ trace' = <<>>
  /\ code' = 0
  /\ calls' = calls + 1
  /\ stale' = (Len(parents) > 1 \/ tmpKey # Null)
  /\ UNCHANGED <<heapSize, result>>

\* parser.parse invokes one callback; an error thrown by the callback leaves
\* parse and _decode.  Every event consumes at least one byte of the input.
Callback(ev, maxEvents) ==
  /\ pc = "scanning"
  /\ Len(trace) < maxEvents
  /\ Len(trace) < inputSize
  /\ LET d == Apply(D, ev)
     IN  /\ Install(d)
         /\ IF d.threw
            THEN pc' = "thrown" /\ error' = "callback"
            ELSE UNCHANGED <<pc, error>>
  /\ trace' = Append(trace, ev)
  /\ UNCHANGED <<heapSize, api, inputSize, code, result, calls, stale>>

\* this._res[0]
First(d) ==
  LET items == d.objs[d.res].items
  IN  IF Len(items) = 0 \/ items[1].t = "hole" THEN Undefined ELSE items[1]

\* parser.parse returns c; the rest of _decode and of decodeFirst/decodeAll
ParseReturns(c) ==
  /\ pc = "scanning"
  /\ code' = c
  /\ IF c > 0
     THEN /\ pc' = "thrown"
          /\ error' = "Failed to parse"
          /\ UNCHANGED <<objs, res, tmpKey, parents, result>>
     ELSE /\ pc' = "returned"
          /\ error' = "none"
          /\ result' = (IF api = "decodeFirst" THEN First(D) ELSE Ref(res))
          /\ Install(Collect(D, result'))
  /\ UNCHANGED <<heapSize, api, inputSize, trace, calls, stale>>

\* ------------------------------------------------------------------------
\* What a caller can observe of a value: the value itself if it is a
\* primitive, and for a container its kind, its number of entries and, in
\* order, what can be observed of its keys and items.
\* ------------------------------------------------------------------------
RECURSIVE Shape(_, _)
RECURSIVE ShapeEntries(_, _, _)
ShapeEntries(h, o, i) ==
  IF i > Len(o.items) THEN <<>>
  ELSE (IF o.kind = "Array" THEN <<>> ELSE Shape(h, o.keys[i]))
       \o Shape(h, o.items[i])
       \o ShapeEntries(h, o, i + 1)

Shape(h, v) ==
  IF v.t # "object" THEN <<v>>
  ELSE <<[Val(h[v.id].kind) EXCEPT !.id = Len(h[v.id].items)]>>
       \o ShapeEntries(h, h[v.id], 1)

\* the decoder after the callbacks of the events evs[i..] have run
RECURSIVE Run(_, _, _)
Run(d, evs, i) ==
  IF i > Len(evs) \/ d.threw THEN d ELSE Run(Apply(d, evs[i]), evs, i + 1)

\* The outcome of decodeAll on a decoder just made by new Decoder(size), for
\* an input of byteLength bytes on which the scanner emits evs and returns c
FreshDecodeAll(size, byteLength, evs, c) ==
  LET d0 == _reset(Constructed(size))
      d1 == Run(d0, evs, 1)
  IN  IF SetThrows(HeapSizeOf(size), byteLength)
      THEN [error |-> "RangeError", value |-> <<>>]
      ELSE IF d1.threw THEN [error |-> "callback", value |-> <<>>]
      ELSE IF c > 0 THEN [error |-> "Failed to parse", value |-> <<>>]
      ELSE [error |-> "none", value |-> Shape(d1.objs, Ref(d1.res))]

\* ------------------------------------------------------------------------
\* Spec: one decode call on a decoder made by new Decoder(), with the
\* events of nested arrays and maps
\* ------------------------------------------------------------------------
IntVals == {0, 1}
StrVals == {<<"a">>, <<"b">>}
ArrayLens == {0, 1, 2}
ObjectLens == {0, 2}
Codes == {0, 1, -1}
InputSizes == {0, MaxEvents + 1, HeapSizeOf(0) + 1}

Init == InitWith({0})

DecodeFirst == \E size \in InputSizes : DecodeStart("decodeFirst", size, 1)

DecodeAll == \E size \in InputSizes : DecodeStart("decodeAll", size, 1)

PushInt == \E v \in IntVals : Callback(Event("pushInt", <<v>>, <<>>), MaxEvents)

PushUtf8String == \E s \in StrVals : Callback(Event("pushUtf8String", <<>>, s), MaxEvents)

PushNull == Callback(Event("pushNull", <<>>, <<>>), MaxEvents)

PushArrayStartFixed ==
  \E len \in ArrayLens : Callback(Event("pushArrayStartFixed", <<len>>, <<>>), MaxEvents)

PushObjectStartFixed ==
  \E len \in ObjectLens : Callback(Event("pushObjectStartFixed", <<len>>, <<>>), MaxEvents)

ScannerReturn == \E c \in Codes : ParseReturns(c)

Next ==
  \/ DecodeFirst
  \/ DecodeAll
  \/ PushInt
  \/ PushUtf8String
  \/ PushNull
  \/ PushArrayStartFixed
  \/ PushObjectStartFixed
  \/ ScannerReturn

Spec == Init /\ [][Next]_vars

\* ------------------------------------------------------------------------
\* SpecLeaf: one decodeFirst call with the callbacks that build their value
\* from 16-bit fragments, and the remaining leaf callbacks
\* ------------------------------------------------------------------------
HighFragments == {0, 31, 32, 65535}
Fragments == {0, 65535}
LowFragments == {0, 1, 65535}
LeafCodes == {0, 1}

LeafDecodeFirst == DecodeStart("decodeFirst", MaxNumEvents + 1, 1)

PushInt32 ==
  \E f \in Fragments, g \in LowFragments :
    Callback(Event("pushInt32", <<f, g>>, <<>>), MaxNumEvents)

PushInt32Neg ==
  \E f \in Fragments, g \in LowFragments :
    Callback(Event("pushInt32Neg", <<f, g>>, <<>>), MaxNumEvents)

PushInt64Neg ==
  \E f1 \in HighFragments, f2 \in Fragments, g1 \in Fragments, g2 \in LowFragments :
    Callback(Event("pushInt64Neg", <<f1, f2, g1, g2>>, <<>>), MaxNumEvents)

PushTrue == Callback(Event("pushTrue", <<>>, <<>>), MaxNumEvents)

PushFalse == Callback(Event("pushFalse", <<>>, <<>>), MaxNumEvents)

PushUndefined == Callback(Event("pushUndefined", <<>>, <<>>), MaxNumEvents)

PushEmptyString == Callback(Event("pushUtf8String", <<>>, <<>>), MaxNumEvents)

PushArrayStartFixed32 ==
  \E len2 \in {0, 1} : Callback(Event("pushArrayStartFixed32", <<0, len2>>, <<>>), MaxNumEvents)

PushObjectStartFixed32 ==
  \E len2 \in {0, 1} : Callback(Event("pushObjectStartFixed32", <<0, len2>>, <<>>), MaxNumEvents)

LeafReturn == \E c \in LeafCodes : ParseReturns(c)

NextLeaf ==
  \/ LeafDecodeFirst
  \/ PushInt32
  \/ PushInt32Neg
  \/ PushInt64Neg
  \/ PushTrue
  \/ PushFalse
  \/ PushUndefined
  \/ PushEmptyString
  \/ PushArrayStartFixed32
  \/ PushObjectStartFixed32
  \/ LeafReturn

SpecLeaf == Init /\ [][NextLeaf]_vars

\* ------------------------------------------------------------------------
\* SpecCalls: a sequence of decode calls on one decoder made by
\* new Decoder(size), each call with its own input
\* ------------------------------------------------------------------------
ConstructorSizes == {0, 65537}

InitCalls == InitWith(ConstructorSizes)

CallSizes == {0, heapSize, heapSize + 1}

CallDecodeFirst == \E size \in CallSizes : DecodeStart("decodeFirst", size, MaxCalls)

CallDecodeAll == \E size \in CallSizes : DecodeStart("decodeAll", size, MaxCalls)

CallPushInt == Callback(Event("pushInt", <<1>>, <<>>), MaxCallEvents)

CallPushUtf8String == Callback(Event("pushUtf8String", <<>>, <<"a">>), MaxCallEvents)

CallPushObjectStartFixed == Callback(Event("pushObjectStartFixed", <<1>>, <<>>), MaxCallEvents)

CallPushArrayStartFixed == Callback(Event("pushArrayStartFixed", <<1>>, <<>>), MaxCallEvents)

CallReturn == \E c \in Codes : ParseReturns(c)

NextCalls ==
  \/ CallDecodeFirst
  \/ CallDecodeAll
  \/ CallPushInt
  \/ CallPushUtf8String
  \/ CallPushObjectStartFixed
  \/ CallPushArrayStartFixed
  \/ CallReturn

SpecCalls == InitCalls /\ [][NextCalls]_vars

\* ------------------------------------------------------------------------
\* Properties
\* ------------------------------------------------------------------------
LeafOps == {"pushInt", "pushInt32", "pushInt32Neg", "pushInt64Neg", "pushTrue",
            "pushFalse", "pushNull", "pushUndefined", "pushUtf8String"}

IsLeaf(ev) == ev.op \in LeafOps

\* the number of children a container-open event declares
Declared(ev) ==
  LET len == IF Len(ev.n) = 1 THEN ev.n[1] ELSE ev.n[1] * Base + ev.n[2]
  IN  IF ev.op \in {"pushObjectStartFixed", "pushObjectStartFixed32"} THEN 2 * len ELSE len

\* the index after the well-formed item that starts at evs[i]; 0 if the
\* events end before the item is complete
RECURSIVE ItemEnd(_, _)
RECURSIVE ItemsEnd(_, _, _)
ItemsEnd(evs, i, k) ==
  IF k = 0 THEN i
  ELSE LET j == ItemEnd(evs, i) IN IF j = 0 THEN 0 ELSE ItemsEnd(evs, j, k - 1)

ItemEnd(evs, i) ==
  IF i > Len(evs) THEN 0
  ELSE IF IsLeaf(evs[i]) THEN i + 1
  ELSE ItemsEnd(evs, i + 1, Declared(evs[i]))

\* evs is a sequence of complete top-level items
RECURSIVE CompleteFrom(_, _)
CompleteFrom(evs, i) ==
  IF i = Len(evs) + 1 THEN TRUE
  ELSE LET j == ItemEnd(evs, i) IN j # 0 /\ CompleteFrom(evs, j)

\* the value a small leaf event delivers
LeafValue(ev) ==
  CASE ev.op = "pushInt" -> Num(ev.n[1])
    [] ev.op = "pushUtf8String" -> Str(ev.s)
    [] ev.op = "pushTrue" -> True
    [] ev.op = "pushFalse" -> False
    [] ev.op = "pushNull" -> Null
    [] ev.op = "pushUndefined" -> Undefined

IsContainer(v, kind) == v.t = "object" /\ objs[v.id].kind = kind

\* C1: decodeFirst on pushArrayStartFixed(N) followed by N leaf pushes
\* returns a sequence of length exactly N whose i-th element is the i-th
\* pushed value.
C1_FixedArrayInOrder ==
  ( /\ pc = "returned" /\ api = "decodeFirst" /\ code = 0
    /\ Len(trace) >= 1
    /\ trace[1].op = "pushArrayStartFixed"
    /\ Len(trace) = trace[1].n[1] + 1
    /\ \A i \in 2..Len(trace) : IsLeaf(trace[i]) )
  => /\ IsContainer(result, "Array")
     /\ Len(objs[result.id].items) = trace[1].n[1]
     /\ \A i \in 1..trace[1].n[1] :
          objs[result.id].items[i] = LeafValue(trace[i + 1])

\* the root element v is the top-level item that starts at event ev
IsItemOf(v, ev) ==
  CASE IsLeaf(ev) -> v = LeafValue(ev)
    [] ev.op = "pushArrayStartFixed" -> IsContainer(v, "Array")
    [] OTHER -> IsContainer(v, "Object") \/ IsContainer(v, "Map")

\* C2: on two concatenated well-formed top-level items decodeAll returns
\* exactly two elements, the first item then the second, and decodeFirst
\* returns the first item only.
C2_TwoTopLevelItems ==
  LET j == ItemEnd(trace, 1)
  IN  ( /\ pc = "returned" /\ code = 0
        /\ j # 0 /\ ItemEnd(trace, j) = Len(trace) + 1 )
      => /\ Len(objs[res].items) = 2
         /\ IsItemOf(objs[res].items[1], trace[1])
         /\ IsItemOf(objs[res].items[2], trace[j])
         /\ api = "decodeAll" => result = Ref(res)
         /\ api = "decodeFirst" => result = objs[res].items[1]

\* C3: a fixed-length 2-entry map with a string key then an integer key
\* decodes to a Map holding both entries, each key with the value that
\* followed it; with two string keys it decodes to an Object holding both.
C3_MapPromotion ==
  ( /\ pc = "returned" /\ api = "decodeFirst" /\ code = 0
    /\ Len(trace) = 5
    /\ trace[1].op = "pushObjectStartFixed" /\ trace[1].n[1] = 2
    /\ trace[2].op = "pushUtf8String"
    /\ trace[4].op \in {"pushInt", "pushUtf8String"}
    /\ trace[4] # trace[2]
    /\ IsLeaf(trace[3]) /\ IsLeaf(trace[5]) )
  => /\ IsContainer(result, IF trace[4].op = "pushInt" THEN "Map" ELSE "Object")
     /\ objs[result.id].keys = <<LeafValue(trace[2]), LeafValue(trace[4])>>
     /\ objs[result.id].items = <<LeafValue(trace[3]), LeafValue(trace[5])>>

\* C4: a decode call returns a value only if the frame stack is at depth one
\* and no key is pending when the scanner returns; it never returns when
\* the events end inside a fixed-length container that has received fewer
\* children than it declared.
C4_ReturnsOnlyWhenComplete ==
  (pc = "returned" /\ code = 0) =>
    /\ Len(parents) = 1
    /\ tmpKey = Null
    /\ CompleteFrom(trace, 1)

\* C5: only the scanner status zero leads to a returned result; every other
\* status, positive or negative, fails the call.
C5_NonZeroStatusFails == pc = "returned" => code = 0

\* C6: decodeFirst fails when the scanner succeeded but the root sequence is
\* empty; it never returns when no top-level value was produced.
C6_DecodeFirstNeedsValue ==
  (pc = "returned" /\ api = "decodeFirst" /\ code = 0) => Len(objs[res].items) > 0

\* the 64-bit magnitude of the fragments of a pushInt64Neg event
Magnitude64(ev) == <<ev.n[4], ev.n[3], ev.n[2], ev.n[1], 0>>

\* the high word f1 * 2^16 + f2 exceeds 0x1fffff exactly when f1 exceeds 0x1f
HighWordUnsafe(ev) == ev.n[1] > 31

\* C7: pushInt64Neg pushes exactly -1 - (f * 2^32 + g): as an
\* arbitrary-precision integer when f > 0x1fffff, and as a number when
\* f <= 0x1fffff, where f * 2^32 + g does not exceed 2^53 - 1.
C7_Int64NegExact ==
  \A i \in 1..Len(trace) :
    (trace[i].op = "pushInt64Neg" /\ \A j \in 1..i : IsLeaf(trace[j]))
    => LET v == objs[res].items[i]
       IN  /\ v.neg
           /\ v.mag = AddMag(Magnitude64(trace[i]), MagOf(1))
           /\ v.t = (IF HighWordUnsafe(trace[i]) THEN "bignumber" ELSE "number")
           /\ ~HighWordUnsafe(trace[i]) => MagBits(Magnitude64(trace[i])) <= 53

\* both paths have pushed their value: the largest magnitude of the number
\* path, then a magnitude of 2^53 + 1
C7_Witness ==
  /\ pc = "returned"
  /\ trace = <<Event("pushInt64Neg", <<31, 65535, 65535, 65535>>, <<>>),
               Event("pushInt64Neg", <<32, 0, 0, 1>>, <<>>)>>
  /\ objs[res].items[1] = Number(TRUE, <<0, 0, 0, 32, 0>>)
  /\ objs[res].items[2] = Bignumber(TRUE, <<2, 0, 0, 32, 0>>)

\* C8: whatever calls were made on the instance before, a decodeAll call
\* ends as it ends on a freshly constructed instance given the same input:
\* with the same error, or returning a result that looks the same.
C8_CallsIndependent ==
  (pc \in {"returned", "thrown"} /\ api = "decodeAll")
  => LET fresh == FreshDecodeAll(heapSize, inputSize, trace, code)
     IN  /\ error = fresh.error
         /\ pc = "returned" => Shape(objs, result) = fresh.value

\* a second call has returned after a call that left open frames or a key
C8_Witness ==
  /\ calls = 2 /\ stale
  /\ pc = "returned" /\ api = "decodeAll"
  /\ Len(trace) = MaxCallEvents

\* C9: when the input is larger than the heap the call fails before the
\* scanner runs: no event reaches the builder and nothing is returned.
C9_CapacityFailsFirst ==
  inputSize > heapSize
  => /\ pc = "thrown" /\ error = "RangeError"
     /\ trace = <<>>
     /\ objs[res].items = <<>> /\ Len(parents) = 1 /\ tmpKey = Null

C9_Witness ==
  /\ heapSize = 65537 /\ inputSize = 65538 /\ pc = "thrown"
  /\ calls = 2 /\ stale

\* the children a frame's container has received: values pushed into an
\* array, completed key/value pairs of a map
Received(f) ==
  IF f.type = PARENT_ARRAY
  THEN Cardinality({k \in 1..Len(objs[f.ref].items) : objs[f.ref].items[k] # Hole})
  ELSE Len(objs[f.ref].keys)

\* C10: a frame opened with a declared length L > 0 is on the stack exactly
\* while the children it still expects, L less one for each child received,
\* are more than zero: no frame on the stack has zero remaining.
C10_OnStackWhileRemaining ==
  \A i \in 2..Len(parents) :
    (parents[i].left.t = "number" /\ IntOf(parents[i].left) > 0)
    => Received(parents[i]) < IntOf(parents[i].left)

\* ------------------------------------------------------------------------
\* A reference recursive decoder: what can be observed of the item that
\* starts at evs[i] of a well-formed event sequence, every container
\* holding exactly the children that follow its opening event
\* ------------------------------------------------------------------------
IsMapStart(ev) == ev.op \in {"pushObjectStartFixed", "pushObjectStartFixed32"}

\* the entries with the pair (k, v) set: the value of an equal primitive key
\* is replaced, any other key is added at the end
RefSet(entries, k, v) ==
  LET hits == {j \in 1..Len(entries) : entries[j][1] = k /\ k[1].t # "Array"
                                         /\ k[1].t # "Object" /\ k[1].t # "Map"}
  IN  IF hits = {} THEN Append(entries, <<k, v>>)
      ELSE [entries EXCEPT ![CHOOSE j \in hits : TRUE] = <<k, v>>]

RECURSIVE RefFlatten(_, _)
RefFlatten(entries, j) ==
  IF j > Len(entries) THEN <<>>
  ELSE entries[j][1] \o entries[j][2] \o RefFlatten(entries, j + 1)

RECURSIVE RefItem(_, _)
RECURSIVE RefItems(_, _, _)
RECURSIVE RefPairs(_, _, _, _)
RefItems(evs, i, k) ==
  IF k = 0 THEN <<>>
  ELSE RefItem(evs, i) \o RefItems(evs, ItemEnd(evs, i), k - 1)

RefPairs(evs, i, k, entries) ==
  IF k = 0 THEN entries
  ELSE LET j == ItemEnd(evs, i)
       IN  RefPairs(evs, ItemEnd(evs, j), k - 1,
                    RefSet(entries, RefItem(evs, i), RefItem(evs, j)))

RefItem(evs, i) ==
  IF IsLeaf(evs[i]) THEN <<LeafValue(evs[i])>>
  ELSE IF IsMapStart(evs[i])
  THEN LET entries == RefPairs(evs, i + 1, Declared(evs[i]) \div 2, <<>>)
           kind == IF \A j \in 1..Len(entries) : entries[j][1][1].t = "string"
                   THEN "Object" ELSE "Map"
       IN  <<[Val(kind) EXCEPT !.id = Len(entries)]>> \o RefFlatten(entries, 1)
  ELSE <<[Val("Array") EXCEPT !.id = Declared(evs[i])]>>
       \o RefItems(evs, i + 1, Declared(evs[i]))

\* the number of top-level items of the complete sequence evs[i..]
RECURSIVE RefCount(_, _)
RefCount(evs, i) ==
  IF i > Len(evs) THEN 0 ELSE 1 + RefCount(evs, ItemEnd(evs, i))

\* the sequence of all top-level items of the complete sequence evs
RefDecodeAll(evs) ==
  <<[Val("Array") EXCEPT !.id = RefCount(evs, 1)]>>
  \o RefItems(evs, 1, RefCount(evs, 1))

\* C11: for a well-formed event sequence of nested fixed-length arrays and
\* maps the tree the builder has produced when the scanner returns equals
\* the tree of the reference recursive decoder.
C11_MatchesReference ==
  (pc = "returned" /\ code = 0 /\ CompleteFrom(trace, 1))
  => Shape(objs, Ref(res)) = RefDecodeAll(trace)

\* C12: a container opened with declared length 0 accepts no children: its
\* frame is not on the stack when the next event is processed, and a value
\* pushed after it goes to the enclosing frame while the container stays
\* empty.
C12_EmptyContainerAcceptsNothing ==
  /\ \A i \in 2..Len(parents) : parents[i].left # Num(0)
  /\ ( /\ pc = "scanning" /\ Len(trace) = 2
       /\ ~IsLeaf(trace[1]) /\ Declared(trace[1]) = 0
       /\ IsLeaf(trace[2]) )
     => /\ Len(objs[res].items) = 2
        /\ objs[res].items[1].t = "object"
        /\ objs[objs[res].items[1].id].items = <<>>
        /\ objs[res].items[2] = LeafValue(trace[2])

\* the count of children a frame still expects: the declared one until _dec
\* has written the count it decrements
RemainingOf(f) == IF f.length = Undefined THEN f.left ELSE f.length

\* C13: the remaining count of a frame is decremented exactly once per
\* direct child, leaf or container: an array frame declared with L > 0
\* children that has received k of them has L - k remaining.
C13_DecrementedOncePerChild ==
  \A i \in 2..Len(parents) :
    ( /\ parents[i].type = PARENT_ARRAY
      /\ parents[i].left.t = "number" /\ IntOf(parents[i].left) > 0 )
    => RemainingOf(parents[i]) = Num(IntOf(parents[i].left) - Received(parents[i]))

\* C14: pushes into an ObjectLike or Map frame alternate key, value: after
\* a map declared with more than one pair has received two leaves, its
\* container holds the first as the key of the second and no key is
\* pending, whatever the key is (0 and null included).
C14_KeyThenValue ==
  ( /\ pc = "scanning" /\ Len(trace) = 3
    /\ IsMapStart(trace[1]) /\ Declared(trace[1]) > 2
    /\ IsLeaf(trace[2]) /\ IsLeaf(trace[3]) )
  => /\ Len(parents) = 2
     /\ objs[parents[2].ref].keys = <<LeafValue(trace[2])>>
     /\ objs[parents[2].ref].items = <<LeafValue(trace[3])>>
     /\ tmpKey = Null

\* C15: the pending key belongs to the frame that received it: when a
\* container declared with more than one child is opened in key position of
\* a map and a leaf is pushed into it, the leaf is not paired with the outer
\* frame's key (the new container holds no entry) and, where the new
\* container is an array, the outer key is still pending.
C15_KeyStaysWithItsFrame ==
  ( /\ pc = "scanning" /\ Len(trace) = 3
    /\ IsMapStart(trace[1]) /\ Declared(trace[1]) > 2
    /\ ~IsLeaf(trace[2]) /\ Declared(trace[2]) > 1
    /\ IsLeaf(trace[3]) )
  => /\ Len(parents) = 3
     /\ objs[parents[3].ref].keys = <<>>
     /\ parents[3].type = PARENT_ARRAY => tmpKey = Ref(parents[3].ref)

\* an ObjectLike frame's container is a plain object with string keys only
ObjectFramesHoldStrings ==
  \A i \in 1..Len(parents) :
    parents[i].type = PARENT_OBJECT
    => /\ objs[parents[i].ref].kind = "Object"
       /\ \A k \in 1..Len(objs[parents[i].ref].keys) :
            objs[parents[i].ref].keys[k].t = "string"

\* the key an ObjectLike frame is about to use is absent or a string
ObjectFrameKeyIsString ==
  (pc = "scanning" /\ parents[Len(parents)].type = PARENT_OBJECT)
  => tmpKey = Null \/ tmpKey.t = "string"

\* a map that holds one string-keyed entry receives a non-string key
PromotingTrace(n) ==
  /\ pc = "scanning" /\ Len(trace) = n
  /\ IsMapStart(trace[1]) /\ Declared(trace[1]) > 2
  /\ trace[2].op = "pushUtf8String" /\ IsLeaf(trace[3])
  /\ IsLeaf(trace[4]) /\ trace[4].op # "pushUtf8String"

\* C16: an ObjectLike frame's container and pending key hold only string
\* keys; the push of the first non-string key makes the frame a Map frame
\* in that step, its container a general mapping holding the entries
\* accumulated so far, and the next push adds the entry of that key.
C16_PromotionKeepsEntries ==
  /\ ObjectFramesHoldStrings
  /\ ObjectFrameKeyIsString
  /\ PromotingTrace(4)
     => /\ parents[2].type = PARENT_MAP
        /\ objs[parents[2].ref].kind = "Map"
        /\ objs[parents[2].ref].keys = <<LeafValue(trace[2])>>
        /\ objs[parents[2].ref].items = <<LeafValue(trace[3])>>
  /\ (PromotingTrace(5) /\ IsLeaf(trace[5]))
     => /\ objs[parents[2].ref].kind = "Map"
        /\ objs[parents[2].ref].keys = <<LeafValue(trace[2]), LeafValue(trace[4])>>
        /\ objs[parents[2].ref].items = <<LeafValue(trace[3]), LeafValue(trace[5])>>

\* ------------------------------------------------------------------------
\* SpecTag: one decode call in which the builder is also asked to open a
\* Tag frame.  No callback of the constructor's table opens one; the
\* builder's own operation is _createParent(obj, PARENT_TAG, 1), a tagged
\* node being the tag number with an empty slot for the one child.
\* ------------------------------------------------------------------------
MaxTagEvents == 3

TagNumbers == {0, 1}

NewTagged(number) == [kind |-> "Tagged", items |-> <<>>, keys |-> <<Num(number)>>]

openTag(d, number) ==
  LET g == NewId(d.objs)
  IN  _createParent([d EXCEPT !.objs = (g :> NewTagged(number)) @@ @],
                    g, PARENT_TAG, Num(1))

OpenTag ==
  \E number \in TagNumbers :
    /\ pc = "scanning"
    /\ Len(trace) < MaxTagEvents
    /\ Len(trace) < inputSize
    /\ LET d == openTag(D, number)
       IN  /\ Install(d)
           /\ IF d.threw
              THEN pc' = "thrown" /\ error' = "callback"
              ELSE UNCHANGED <<pc, error>>
    /\ trace' = Append(trace, Event("openTag", <<number>>, <<>>))
    /\ UNCHANGED <<heapSize, api, inputSize, code, result, calls, stale>>

TagDecodeFirst == \E size \in InputSizes : DecodeStart("decodeFirst", size, 1)

TagDecodeAll == \E size \in InputSizes : DecodeStart("decodeAll", size, 1)

TagPushInt == \E v \in IntVals : Callback(Event("pushInt", <<v>>, <<>>), MaxTagEvents)

TagPushUtf8String == Callback(Event("pushUtf8String", <<>>, <<"a">>), MaxTagEvents)

TagPushNull == Callback(Event("pushNull", <<>>, <<>>), MaxTagEvents)

TagPushArrayStartFixed == Callback(Event("pushArrayStartFixed", <<1>>, <<>>), MaxTagEvents)

TagReturn == \E c \in Codes : ParseReturns(c)

NextTag ==
  \/ TagDecodeFirst
  \/ TagDecodeAll
  \/ OpenTag
  \/ TagPushInt
  \/ TagPushUtf8String
  \/ TagPushNull
  \/ TagPushArrayStartFixed
  \/ TagReturn

SpecTag == Init /\ [][NextTag]_vars

\* C17: a value pushed while the current frame is a Tag frame is wrapped in
\* the tagged node (tag number plus that one child) and the Tag frame is
\* closed, so the following value goes to the enclosing frame.
C17_TagWrapsOneValue ==
  ( /\ pc = "scanning" /\ Len(trace) >= 2
    /\ trace[1].op = "openTag" /\ IsLeaf(trace[2]) )
  => /\ IsContainer(objs[res].items[1], "Tagged")
     /\ objs[objs[res].items[1].id].keys = <<Num(trace[1].n[1])>>
     /\ objs[objs[res].items[1].id].items = <<LeafValue(trace[2])>>
     /\ Len(trace) = 2 => Len(parents) = 1
     /\ (Len(trace) = 3 /\ IsLeaf(trace[3]))
        => objs[res].items = <<objs[res].items[1], LeafValue(trace[3])>>

\* C18: the root frame is never closed: at every point the frame stack has
\* depth >= 1 and its bottom frame is the root Array frame whose container
\* is the result sequence.
C18_RootFrameStays ==
  /\ Len(parents) >= 1
  /\ parents[1].type = PARENT_ARRAY
  /\ parents[1].ref = res
  /\ objs[res].kind = "Array"

\* the root has received two values, a container among them, and frames
\* were opened above it
C18_Witness ==
  /\ pc = "scanning" /\ Len(trace) = MaxCallEvents
  /\ Len(parents) >= 2
  /\ Len(objs[res].items) >= 2
  /\ \E i \in 1..Len(objs[res].items) : objs[res].items[i].t = "object"

\* the number of values in the tree of v: v itself and, for a container,
\* the trees of its elements, keys and values (an empty slot is no value)
RECURSIVE TreeSize(_, _)
RECURSIVE TreeSizeOfAll(_, _, _)
TreeSizeOfAll(h, seq, i) ==
  IF i > Len(seq) THEN 0
  ELSE TreeSize(h, seq[i]) + TreeSizeOfAll(h, seq, i + 1)

TreeSize(h, v) ==
  IF v = Hole THEN 0
  ELSE IF v.t # "object" THEN 1
  ELSE 1 + TreeSizeOfAll(h, h[v.id].items, 1) + TreeSizeOfAll(h, h[v.id].keys, 1)

\* no leaf is delivered twice, so that no map is given the same key twice,
\* and none is null, the value that also stands for "no key is pending"
DistinctLeaves ==
  /\ \A i, j \in 1..Len(trace) : (i < j /\ IsLeaf(trace[i])) => trace[i] # trace[j]
  /\ \A i \in 1..Len(trace) : trace[i].op # "pushNull"

\* C19: no pushed value is lost or duplicated: the tree reachable from the
\* root sequence, together with the pending key, holds as many values as
\* the events of the call have delivered.
C19_NoValueLostOrDuplicated ==
  (pc = "scanning" /\ DistinctLeaves)
  => TreeSizeOfAll(objs, objs[res].items, 1)
     + (IF tmpKey = Null THEN 0 ELSE TreeSize(objs, tmpKey))
     = Len(trace)

\* C20: a value a decode call has returned is left unchanged by every later
\* call on the same instance: every step that leaves the caller's result in
\* place leaves what can be observed of it as it was, and a call starts
\* with an accumulator that did not exist before.
C20_ReturnedResultUnchanged ==
  [][ /\ (result.t = "object" /\ result' = result)
         => Shape(objs', result) = Shape(objs, result)
      /\ calls' # calls => res' \notin DOMAIN objs ]_vars

\* a later call has received events while the caller holds the sequence [1]
\* that a decodeAll call returned (an array returned by decodeFirst starts
\* with an empty slot)
C20_Witness ==
  /\ calls = 2 /\ pc = "scanning" /\ Len(trace) = MaxCallEvents
  /\ result.t = "object" /\ result.id # res
  /\ objs[result.id].items = <<Num(1)>>
  /\ Len(objs[res].items) >= 1
====
